---- MODULE Spec2Model ----
(***************************************************************************)
(* A model of the node-ts bus: the handler registry, the bus lifecycle and *)
(* its dispatch loop over a transport, and the workflow engine with its    *)
(* in-memory and Postgres persistences.                                    *)
(***************************************************************************)
EXTENDS Integers, Sequences, FiniteSets, TLC

VARIABLES
    registry,            \* DefaultHandlerRegistry.registry: message name -> handlers
    handlerResolvers,    \* DefaultHandlerRegistry.handlerResolvers
    unhandledMessages,   \* DefaultHandlerRegistry.unhandledMessages
    busState,            \* Bus.state
    queue,               \* the transport's queue of raw messages
    published,           \* number of messages handed to the transport so far
    slots,               \* the in-flight deliveries of the dispatch loop
    lastCall,            \* the last initialize/start/stop call and how it ended
    done,                \* the last delivery the dispatch loop finished
    deletes,             \* per message id: deleteMessage calls
    backend,             \* the configured persistence: "memory" or "postgres"
    workflowState,       \* InMemoryPersistence.workflowState[name]: the live rows
    table,               \* the Postgres table of the workflow: rows (id, version, data)
    nextId,              \* number of workflow ids handed out by uuid.v4()
    wf,                  \* per delivery: the progress of its workflow handler
    lastStart,           \* the last onStartedBy handling and how it ended
    lastSave,            \* the last direct saveWorkflowState call and how it ended
    busHooks,            \* per hook event: the listeners, in registration order
    hookCalls,           \* per hook event and listener: how often it was invoked
    lastHook,            \* what the last invoked listener was given
    callCount,           \* invocations of the handler that throws on its first
    invoked,             \* per message id: invocations of that handler
    variant,             \* which DefaultHandlerRegistry is in use
    regCall,             \* the last register/get/reset call made directly
    registered,          \* what was registered with success since the last reset
    workflowRegistry,    \* WorkflowRegistry.workflowRegistry: buffered workflows
    isInitialized,       \* WorkflowRegistry.isInitialized
    isInitializing,      \* WorkflowRegistry.isInitializing
    initCalls,           \* the initialize() calls in progress
    wired,               \* per workflow: how often its handlers were registered
    lastInit             \* the last register/initialize call that returned

vars == <<registry, handlerResolvers, unhandledMessages, busState, queue,
          published, slots, lastCall, done, deletes, backend, workflowState,
          table, nextId, wf, lastStart, lastSave, busHooks, hookCalls,
          lastHook, callCount, invoked, variant, regCall, registered,
          workflowRegistry,
          isInitialized, isInitializing, initCalls, wired, lastInit>>

wfVars == <<backend, workflowState, table, nextId, wf, lastStart, lastSave>>

regVars == <<registry, handlerResolvers, unhandledMessages>>

busVars == <<busState, queue, published, slots, lastCall, done, deletes>>

hookVars == <<busHooks, hookCalls, lastHook>>

retryVars == <<callCount, invoked>>

probeVars == <<variant, regCall, registered>>

wfRegVars == <<workflowRegistry, isInitialized, isInitializing, initCalls,
               wired, lastInit>>

otherVars == <<retryVars, probeVars, wfRegVars>>

(***************************************************************************)
(* Bounds of the model.                                                    *)
(***************************************************************************)
MaxPublish == 2      \* messages published over a run
MaxSeen == 2         \* a message seen this often is no longer redelivered
MaxInFlight == 1     \* concurrent deliveries of the dispatch loop
MaxResolvers == 1    \* entries of handlerResolvers
MaxInstances == 2    \* workflow ids handed out over a run
MaxWfPublish == 3    \* messages published to the workflow over a run
MaxWfInFlight == 2   \* concurrent deliveries of the dispatch loop, workflows
MaxVersion == 2      \* the $version of a state handed to a direct save
MaxRegistryCalls == 4 \* register/get/reset calls made directly on a registry

(***************************************************************************)
(* Messages, handlers, resolvers.                                          *)
(***************************************************************************)
NoName == "undefined"
NoKey == "undefined"
NoResolver == "undefined"

MessageTypes == {"TestEvent"}
PlainHandlers == {"h1", "h2"}
\* the handlers WorkflowRegistry.initialize registers for a workflow
WorkflowHandlers == {"startedBy", "when"}
Handlers == PlainHandlers \cup WorkflowHandlers
\* resolveWith predicates: one that accepts messages without a $name, one that
\* accepts every message.
Resolvers == {"isExternal", "any"}
BusMessages == [name : MessageTypes \cup {NoName}, key : {NoKey}]
MsgIds == 1..MaxPublish
Workers == DOMAIN slots

Accepts(resolver, message) ==
    CASE resolver = "isExternal" -> message.name = NoName
      [] resolver = "any" -> TRUE
      [] OTHER -> FALSE

Contains(seq, x) == \E i \in 1..Len(seq) : seq[i] = x

(***************************************************************************)
(* DefaultHandlerRegistry (the variant that records resolvers).            *)
(***************************************************************************)
\* a register that adds the handler without looking for it in the list
registerUnchecked(reg, res, messageType, handler, resolveWith) ==
    LET reg1 == IF messageType \notin DOMAIN reg
                THEN reg @@ (messageType :> <<>>)
                ELSE reg
    IN  [registry |-> [reg1 EXCEPT ![messageType] = Append(@, handler)],
         handlerResolvers |-> res,
         threw |-> FALSE]

register(reg, res, messageType, handler, resolveWith) ==
    LET res1 == IF resolveWith # NoResolver
                THEN Append(res, [handler |-> handler,
                                  messageType |-> messageType,
                                  resolver |-> resolveWith])
                ELSE res
        messageName == messageType
        reg1 == IF messageName \notin DOMAIN reg
                THEN reg @@ (messageName :> <<>>)
                ELSE reg
        handlerNameAlreadyRegistered == Contains(reg1[messageName], handler)
    IN  [registry |-> IF handlerNameAlreadyRegistered
                      THEN reg1
                      ELSE [reg1 EXCEPT ![messageName] = Append(@, handler)],
         handlerResolvers |-> res1,
         threw |-> handlerNameAlreadyRegistered]

RECURSIVE resolveCustomHandlers(_, _)
resolveCustomHandlers(res, message) ==
    IF res = <<>> THEN <<>>
    ELSE (IF Accepts(Head(res).resolver, message)
          THEN <<Head(res).handler>> ELSE <<>>)
         \o resolveCustomHandlers(Tail(res), message)

\* a get that returns the predicate-resolved handlers alone
getCustomOnly(reg, res, unhandled, message) ==
    [handlers |-> resolveCustomHandlers(res, message),
     unhandledMessages |-> unhandled]

get(reg, res, unhandled, message) ==
    LET customHandlers == resolveCustomHandlers(res, message)
        messageName == message.name
        noHandlersForMessage ==
            customHandlers = <<>>
            /\ (messageName = NoName \/ messageName \notin DOMAIN reg)
        warn == messageName # NoName /\ ~Contains(unhandled, messageName)
        messageHandlers == IF messageName # NoName /\ messageName \in DOMAIN reg
                           THEN reg[messageName]
                           ELSE <<>>
    IN  IF noHandlersForMessage
        THEN [handlers |-> <<>>,
              unhandledMessages |-> IF warn THEN Append(unhandled, messageName)
                                    ELSE unhandled]
        ELSE [handlers |-> messageHandlers \o customHandlers,
              unhandledMessages |-> unhandled]

(***************************************************************************)
(* DefaultHandlerRegistry (the variant that keeps no resolvers).           *)
(***************************************************************************)
registerKeyed(reg, res, messageType, handler, resolveWith) ==
    LET messageName == messageType
        reg1 == IF messageName \notin DOMAIN reg
                THEN reg @@ (messageName :> <<>>)
                ELSE reg
        handlerNameAlreadyRegistered == Contains(reg1[messageName], handler)
    IN  [registry |-> IF handlerNameAlreadyRegistered
                      THEN reg1
                      ELSE [reg1 EXCEPT ![messageName] = Append(@, handler)],
         handlerResolvers |-> res,
         threw |-> handlerNameAlreadyRegistered]

getKeyed(reg, res, unhandled, message) ==
    LET messageName == message.name
    IN  IF messageName \notin DOMAIN reg
        THEN [handlers |-> <<>>,
              unhandledMessages |-> IF ~Contains(unhandled, messageName)
                                    THEN Append(unhandled, messageName)
                                    ELSE unhandled]
        ELSE [handlers |-> reg[messageName],
              unhandledMessages |-> unhandled]

getMessageNames(reg) == DOMAIN reg

reset(reg) == <<>>

(***************************************************************************)
(* Hooks, and the state of the components a run does not use.              *)
(***************************************************************************)
HookEvents == {"send", "publish", "error"}
Callbacks == {"cb"}

NoAttributes == "undefined"
NoHook == [event |-> "none"]

\* no listener registered, none invoked
InitHooks ==
    /\ busHooks = [e \in HookEvents |-> <<>>]
    /\ hookCalls = [e \in HookEvents |-> [cb \in Callbacks |-> 0]]
    /\ lastHook = NoHook

Occurrences(seq, x) == Cardinality({i \in 1..Len(seq) : seq[i] = x})

\* every registered listener of the event is invoked, in registration order
CallListeners(listeners, counts) ==
    [cb \in Callbacks |-> counts[cb] + Occurrences(listeners, cb)]

\* the hook of an event fires: its listeners are invoked with what is given
Emit(event, given) ==
    /\ hookCalls' = [hookCalls EXCEPT ![event] = CallListeners(busHooks[event], @)]
    /\ lastHook' = IF busHooks[event] = <<>> THEN lastHook ELSE given
    /\ UNCHANGED busHooks

NoRegCall == [n |-> 0, op |-> "none"]
RegistryTypes == {"TestEvent", "TestCommand"}
Variants == {"resolvers", "keyed"}
NothingRegistered == [keyed |-> [t \in RegistryTypes |-> <<>>], resolved |-> <<>>]
NoInit == [op |-> "none", result |-> "none"]
Workflows == {"W", "V"}

\* a workflow registry nothing was registered with
InitWorkflowRegistry ==
    /\ workflowRegistry = <<>>
    /\ isInitialized = FALSE
    /\ isInitializing = FALSE
    /\ initCalls = <<>>
    /\ wired = [n \in Workflows |-> 0]
    /\ lastInit = NoInit

InitOther ==
    /\ callCount = 0
    /\ invoked = [i \in 1..MaxPublish |-> 0]
    /\ variant = "resolvers"
    /\ regCall = NoRegCall
    /\ registered = NothingRegistered
    /\ InitWorkflowRegistry

(***************************************************************************)
(* Bus lifecycle.                                                          *)
(***************************************************************************)
BusStates == {"Uninitialized", "Initialized", "Starting", "Started",
              "Stopping", "Stopped"}

NoCall == [op |-> "none", result |-> "none"]

\* a start() that only refuses a bus that was never initialized
CanStartAnyInitialized(s) == s # "Uninitialized"

CanStart(s) == s \in {"Initialized", "Stopped"}

\* a stop() that is also accepted while start() is still in progress
CanStopWhileStarting(s) == s \in {"Starting", "Started"}

CanStop(s) == s = "Started"

\* error: what the first handler that threw in the delivery threw
IdleSlot == [pc |-> "idle", msg |-> 0, todo |-> <<>>,
             calls |-> [h \in Handlers |-> 0], failed |-> FALSE,
             error |-> "none"]

NoDelivery == [msg |-> 0, calls |-> [h \in Handlers |-> 0],
               failed |-> FALSE, outcome |-> "none"]

\* configure().withHandler(messageType, handler, resolveWith?)
WithHandler(t, h, r) ==
    /\ busState = "Uninitialized"
    /\ r # NoResolver => Len(handlerResolvers) < MaxResolvers
    /\ LET out == register(registry, handlerResolvers, t, h, r)
       IN  /\ registry' = out.registry
           /\ handlerResolvers' = out.handlerResolvers
    /\ UNCHANGED <<unhandledMessages, busState, queue, published, slots,
                   lastCall, done, deletes>>
    /\ UNCHANGED <<wfVars, hookVars, otherVars>>

Initialize ==
    /\ IF busState = "Uninitialized"
       THEN /\ busState' = "Initialized"
            /\ lastCall' = [op |-> "initialize", result |-> "ok"]
       ELSE /\ busState' = busState
            /\ lastCall' = [op |-> "initialize", result |-> "rejected"]
    /\ UNCHANGED <<regVars, queue, published, slots, done, deletes>>
    /\ UNCHANGED <<wfVars, hookVars, otherVars>>

\* a start() that enters Starting before it checks the state
StartBeforeCheck ==
    /\ busState' = (IF busState = "Uninitialized" THEN busState ELSE "Starting")
    /\ lastCall' = [op |-> "start",
                    result |-> IF CanStart(busState) THEN "ok" ELSE "rejected"]
    /\ UNCHANGED <<regVars, queue, published, slots, done, deletes>>
    /\ UNCHANGED <<wfVars, hookVars, otherVars>>

\* start(): the synchronous part, up to the first await
Start ==
    /\ IF CanStart(busState)
       THEN /\ busState' = "Starting"
            /\ lastCall' = [op |-> "start", result |-> "ok"]
       ELSE /\ busState' = busState
            /\ lastCall' = [op |-> "start", result |-> "rejected"]
    /\ UNCHANGED <<regVars, queue, published, slots, done, deletes>>
    /\ UNCHANGED <<wfVars, hookVars, otherVars>>

\* start(): the transport has started, the dispatch loop runs
StartCompleted ==
    /\ busState = "Starting"
    /\ busState' = "Started"
    /\ UNCHANGED <<regVars, queue, published, slots, lastCall, done, deletes>>
    /\ UNCHANGED <<wfVars, hookVars, otherVars>>

\* stop(): the synchronous part
Stop ==
    /\ IF CanStop(busState)
       THEN /\ busState' = "Stopping"
            /\ lastCall' = [op |-> "stop", result |-> "ok"]
       ELSE /\ busState' = busState
            /\ lastCall' = [op |-> "stop", result |-> "rejected"]
    /\ UNCHANGED <<regVars, queue, published, slots, done, deletes>>
    /\ UNCHANGED <<wfVars, hookVars, otherVars>>

\* stop(): the in-flight handlers have drained
StopCompleted ==
    /\ busState = "Stopping"
    /\ \A w \in Workers : slots[w].pc = "idle"
    /\ busState' = "Stopped"
    /\ UNCHANGED <<regVars, queue, published, slots, lastCall, done, deletes>>
    /\ UNCHANGED <<wfVars, hookVars, otherVars>>

(***************************************************************************)
(* Transport: a queue of raw messages {id, payload, seenCount, inFlight}.  *)
(***************************************************************************)
RECURSIVE RemoveId(_, _)
RemoveId(q, id) ==
    IF q = <<>> THEN <<>>
    ELSE IF Head(q).id = id THEN RemoveId(Tail(q), id)
    ELSE <<Head(q)>> \o RemoveId(Tail(q), id)

InQueue(q, id) == \E i \in 1..Len(q) : q[i].id = id

RawOf(q, id) == q[CHOOSE i \in 1..Len(q) : q[i].id = id]

\* the first message that is not in flight, 0 when there is none
NextVisible(q) ==
    LET idx == {i \in 1..Len(q) : ~q[i].inFlight /\ q[i].seenCount < MaxSeen}
    IN  IF idx = {} THEN 0
        ELSE CHOOSE i \in idx : \A j \in idx : i <= j

readNextMessage(q) ==
    [q EXCEPT ![NextVisible(q)].inFlight = TRUE]

deleteMessage(q, id) == RemoveId(q, id)

\* a returnMessage that makes the message visible without counting the receive
returnMessageUncounted(q, id) ==
    [i \in 1..Len(q) |->
        IF q[i].id = id THEN [q[i] EXCEPT !.inFlight = FALSE] ELSE q[i]]

\* a returnMessage that counts the receive and leaves the message in flight
returnMessageInFlight(q, id) ==
    [i \in 1..Len(q) |->
        IF q[i].id = id THEN [q[i] EXCEPT !.seenCount = @ + 1] ELSE q[i]]

returnMessage(q, id) ==
    [i \in 1..Len(q) |->
        IF q[i].id = id
        THEN [q[i] EXCEPT !.seenCount = @ + 1, !.inFlight = FALSE]
        ELSE q[i]]

\* send() and publish(): the hook of the event first, then the transport
Forward(event, m, a) ==
    /\ busState # "Uninitialized"
    /\ published < MaxPublish
    /\ Emit(event, [event |-> event, message |-> m, attributes |-> a,
                    depth |-> Len(queue)])
    /\ published' = published + 1
    /\ queue' = Append(queue, [id |-> published + 1, payload |-> m,
                               attributes |-> a,
                               seenCount |-> 0, inFlight |-> FALSE])
    /\ UNCHANGED <<regVars, busState, slots, lastCall, done, deletes>>
    /\ UNCHANGED <<wfVars, otherVars>>

Publish(m) == Forward("publish", m, NoAttributes)

PublishWith(m, a) == Forward("publish", m, a)

Send(m, a) == Forward("send", m, a)

\* on(event, cb), for a listener that is not registered for the event
On(e, cb) ==
    /\ ~Contains(busHooks[e], cb)
    /\ busHooks' = [busHooks EXCEPT ![e] = Append(@, cb)]
    /\ lastCall' = [op |-> "on", result |-> "ok", event |-> e, cb |-> cb]
    /\ UNCHANGED <<hookCalls, lastHook>>
    /\ UNCHANGED <<regVars, busState, queue, published, slots, done, deletes>>
    /\ UNCHANGED <<wfVars, otherVars>>

\* an off() that leaves the listener registered
OffKeepsListener(e, cb) ==
    /\ lastCall' = [op |-> "off", result |-> "ok", event |-> e, cb |-> cb]
    /\ UNCHANGED <<busHooks, hookCalls, lastHook>>
    /\ UNCHANGED <<regVars, busState, queue, published, slots, done, deletes>>
    /\ UNCHANGED <<wfVars, otherVars>>

\* off(event, cb)
Off(e, cb) ==
    /\ busHooks' = [busHooks EXCEPT ![e] = SelectSeq(@, LAMBDA x : x # cb)]
    /\ lastCall' = [op |-> "off", result |-> "ok", event |-> e, cb |-> cb]
    /\ UNCHANGED <<hookCalls, lastHook>>
    /\ UNCHANGED <<regVars, busState, queue, published, slots, done, deletes>>
    /\ UNCHANGED <<wfVars, otherVars>>

(***************************************************************************)
(* Dispatch loop.                                                          *)
(***************************************************************************)
\* a dispatch loop that keeps reading while stop() waits for the handlers
AcquireWhileStopping(w) ==
    /\ busState \in {"Started", "Stopping"}
    /\ slots[w].pc = "idle"
    /\ NextVisible(queue) # 0
    /\ LET raw == queue[NextVisible(queue)]
           out == get(registry, handlerResolvers, unhandledMessages, raw.payload)
       IN  /\ queue' = readNextMessage(queue)
           /\ unhandledMessages' = out.unhandledMessages
           /\ slots' = [slots EXCEPT ![w] =
                  [IdleSlot EXCEPT !.pc = "handling", !.msg = raw.id,
                                   !.todo = out.handlers]]
    /\ UNCHANGED <<registry, handlerResolvers, busState, published, lastCall,
                   done, deletes>>
    /\ UNCHANGED <<wfVars, hookVars, otherVars>>

\* steps 1-3: read the next message and resolve its handlers
Acquire(w) ==
    /\ busState = "Started"
    /\ slots[w].pc = "idle"
    /\ NextVisible(queue) # 0
    /\ LET raw == queue[NextVisible(queue)]
           out == get(registry, handlerResolvers, unhandledMessages, raw.payload)
       IN  /\ queue' = readNextMessage(queue)
           /\ unhandledMessages' = out.unhandledMessages
           /\ slots' = [slots EXCEPT ![w] =
                  [IdleSlot EXCEPT !.pc = "handling", !.msg = raw.id,
                                   !.todo = out.handlers]]
    /\ UNCHANGED <<registry, handlerResolvers, busState, published, lastCall,
                   done, deletes>>
    /\ UNCHANGED <<wfVars, hookVars, otherVars>>

\* step 5: one handler of the resolved list runs, and returns or throws
InvokeHandler(w) ==
    /\ slots[w].pc = "handling"
    /\ slots[w].todo # <<>>
    /\ Head(slots[w].todo) \in PlainHandlers
    /\ \E throws \in BOOLEAN :
          slots' = [slots EXCEPT ![w].todo = Tail(@),
                                 ![w].calls[Head(slots[w].todo)] = @ + 1,
                                 ![w].failed = @ \/ throws,
                                 ![w].error = IF throws /\ @ = "none"
                                              THEN "Error" ELSE @]
    /\ UNCHANGED <<regVars, busState, queue, published, lastCall, done,
                   deletes>>
    /\ UNCHANGED <<wfVars, hookVars, otherVars>>

\* step 5 with the handler of the retry test, which throws on its first
\* invocation and returns on every later one
InvokeFlaky(w) ==
    /\ slots[w].pc = "handling"
    /\ slots[w].todo # <<>>
    /\ Head(slots[w].todo) \in PlainHandlers
    /\ slots' = [slots EXCEPT ![w].todo = Tail(@),
                              ![w].calls[Head(slots[w].todo)] = @ + 1,
                              ![w].failed = @ \/ callCount = 0,
                              ![w].error = IF callCount = 0 /\ @ = "none"
                                           THEN "Error" ELSE @]
    /\ callCount' = callCount + 1
    /\ invoked' = [invoked EXCEPT ![slots[w].msg] = @ + 1]
    /\ UNCHANGED <<regVars, busState, queue, published, lastCall, done,
                   deletes>>
    /\ UNCHANGED <<wfVars, hookVars, probeVars, wfRegVars>>

DeliveryOf(w, outcome) ==
    [msg |-> slots[w].msg,
     calls |-> slots[w].calls,
     failed |-> slots[w].failed,
     outcome |-> outcome]

\* an error hook that fires for every delivery
ErrorHookFiresAlways(failed) == TRUE

\* step 6: the error hook fires when a handler threw
ErrorHookFires(failed) == failed

\* what the listeners of the error hook are given: the domain message, the
\* error, the attributes and the transport message as it is at that moment
ErrorGiven(raw) ==
    [event |-> "error", message |-> raw.payload, error |-> "Error",
     attributes |-> raw.attributes, id |-> raw.id,
     raw |-> [seenCount |-> raw.seenCount, inFlight |-> raw.inFlight]]

\* steps 5-6: every handler has settled
Settle(w) ==
    /\ slots[w].pc = "handling"
    /\ slots[w].todo = <<>>
    /\ IF ErrorHookFires(slots[w].failed)
       THEN Emit("error", ErrorGiven(RawOf(queue, slots[w].msg)))
       ELSE UNCHANGED hookVars
    /\ IF ~slots[w].failed
       THEN /\ queue' = deleteMessage(queue, slots[w].msg)
            /\ deletes' = [deletes EXCEPT ![slots[w].msg] = @ + 1]
            /\ done' = DeliveryOf(w, "deleted")
       ELSE /\ queue' = returnMessage(queue, slots[w].msg)
            /\ done' = DeliveryOf(w, "returned")
            /\ UNCHANGED deletes
    /\ slots' = [slots EXCEPT ![w] = IdleSlot]
    /\ UNCHANGED <<regVars, busState, published, lastCall>>
    /\ UNCHANGED <<wfVars, otherVars>>

(***************************************************************************)
(* Workflow state and the two persistences.                                *)
(***************************************************************************)
\* a lookup key that is falsy in JavaScript without being null ('' or 0)
FalsyKey == ""
Keys == {"X", FalsyKey}
Statuses == {"running", "complete", "discard"}
Backends == {"memory", "postgres"}

IsFalsy(k) == k = NoKey \/ k = FalsyKey

\* new workflowStateType() with $status = Running and a fresh $workflowId; the
\* class leaves $version at 0 and the user fields (key, count) at their
\* defaults; tags is a nested array, given by its length
createWorkflowState(id) ==
    [workflowId |-> id, name |-> "W", version |-> 0, status |-> "running",
     key |-> NoKey, count |-> 0, tags |-> 0]

\* Object.assign(target, source) / { ...target, ...source }
Assign(target, source) ==
    [f \in DOMAIN target |-> IF f \in DOMAIN source THEN source[f] ELSE target[f]]

IndexOfId(rows, id) ==
    LET idx == {i \in 1..Len(rows) : rows[i].workflowId = id}
    IN  IF idx = {} THEN 0 ELSE CHOOSE i \in idx : \A j \in idx : i <= j

\* InMemoryPersistence.getWorkflowState: references to the live rows
MemoryGetWorkflowState(rows, filterValue, includeCompleted) ==
    IF IsFalsy(filterValue) THEN <<>>
    ELSE LET Keep(i) == /\ (includeCompleted \/ rows[i].status = "running")
                        /\ rows[i].key = filterValue
             F[i \in 0..Len(rows)] ==
                 IF i = 0 THEN <<>>
                 ELSE IF Keep(i) THEN Append(F[i - 1], [ref |-> i, data |-> rows[i]])
                 ELSE F[i - 1]
         IN  F[Len(rows)]

\* InMemoryPersistence.saveWorkflowState
MemorySaveWorkflowState(rows, state) ==
    LET existingItem == IndexOfId(rows, state.workflowId)
    IN  [rows |-> IF existingItem # 0
                  THEN [rows EXCEPT ![existingItem] = Assign(@, state)]
                  ELSE Append(rows, state),
         result |-> "ok"]

TableIndex(tbl, id) ==
    LET idx == {i \in 1..Len(tbl) : tbl[i].id = id}
    IN  IF idx = {} THEN 0 ELSE CHOOSE i \in idx : TRUE

\* PostgresPersistence.getWorkflowData: the select, deserialized copies
PostgresGetWorkflowData(tbl, matcherValue, includeCompleted) ==
    LET Keep(i) == /\ (includeCompleted \/ tbl[i].data.status = "running")
                   /\ tbl[i].data.key # NoKey
                   /\ matcherValue # NoKey
                   /\ tbl[i].data.key = matcherValue
        F[i \in 0..Len(tbl)] ==
            IF i = 0 THEN <<>>
            ELSE IF Keep(i) THEN Append(F[i - 1], [ref |-> 0, data |-> tbl[i].data])
            ELSE F[i - 1]
    IN  F[Len(tbl)]

\* PostgresPersistence.upsertWorkflowData
upsertWorkflowData(tbl, workflowId, plainWorkflowData, oldVersion, newVersion) ==
    IF oldVersion = 0
    THEN IF TableIndex(tbl, workflowId) # 0
         THEN [rows |-> tbl, result |-> "UniqueViolation"]
         ELSE [rows |-> Append(tbl, [id |-> workflowId, version |-> newVersion,
                                     data |-> plainWorkflowData]),
               result |-> "ok"]
    ELSE LET i == TableIndex(tbl, workflowId)
         IN  IF i # 0 /\ tbl[i].version = oldVersion
             THEN [rows |-> [tbl EXCEPT ![i] = [id |-> workflowId,
                                                version |-> newVersion,
                                                data |-> plainWorkflowData]],
                   result |-> "ok"]
             ELSE [rows |-> tbl, result |-> "WorkflowStateNotFound"]

\* PostgresPersistence.saveWorkflowData
PostgresSaveWorkflowData(tbl, workflowData) ==
    LET oldVersion == workflowData.version
        newVersion == oldVersion + 1
        plainWorkflowData == [workflowData EXCEPT !.version = newVersion]
    IN  upsertWorkflowData(tbl, workflowData.workflowId, plainWorkflowData,
                           oldVersion, newVersion)

\* the stored rows of the configured persistence, as workflow states
StoredRows ==
    IF backend = "memory" THEN workflowState
    ELSE [i \in 1..Len(table) |-> table[i].data]

RowsHave(rows, id) == IndexOfId(rows, id) # 0
RowOf(rows, id) == rows[IndexOfId(rows, id)]
HasRow(id) == RowsHave(StoredRows, id)
StoredRow(id) == RowOf(StoredRows, id)

\* the workflow states a store was initialized for (initializeWorkflow)
InitializedStates == {"W"}

\* getPersistence().saveWorkflowState(state): the new store and the outcome;
\* a state of a name no store was initialized for has no list (in memory) and
\* no table (Postgres), and the save throws
saveWorkflowState(state) ==
    IF state.name \notin InitializedStates
    THEN [workflowState |-> workflowState, table |-> table,
          result |-> IF backend = "memory" THEN "TypeError" ELSE "QueryError"]
    ELSE IF backend = "memory"
    THEN LET out == MemorySaveWorkflowState(workflowState, state)
         IN  [workflowState |-> out.rows, table |-> table, result |-> out.result]
    ELSE LET out == PostgresSaveWorkflowData(table, state)
         IN  [workflowState |-> workflowState, table |-> out.rows,
              result |-> out.result]

\* getPersistence().getWorkflowState(stateType, mapping, message, attributes, false)
getWorkflowState(filterValue) ==
    IF backend = "memory"
    THEN MemoryGetWorkflowState(workflowState, filterValue, FALSE)
    ELSE PostgresGetWorkflowData(table, filterValue, FALSE)

NoStart == [id |-> 0, ret |-> "none", result |-> "none"]
NoSave == [state |-> createWorkflowState(0), stored |-> -1, result |-> "none",
           unchanged |-> TRUE]
IdleWf == [pc |-> "none", loaded |-> <<>>, tasks |-> <<>>]

(***************************************************************************)
(* The persistence called directly.                                        *)
(***************************************************************************)
SaveInputs ==
    [workflowId : 1..MaxInstances, name : {"W"}, version : 0..MaxVersion,
     status : {"running", "complete"}, key : {"X"}, count : {0}, tags : {0}]

SaveCall(state) ==
    LET out == saveWorkflowState(state)
    IN  /\ workflowState' = out.workflowState
        /\ table' = out.table
        /\ lastSave' = [state |-> state,
                        stored |-> IF HasRow(state.workflowId)
                                   THEN StoredRow(state.workflowId).version
                                   ELSE -1,
                        result |-> out.result,
                        unchanged |-> (out.workflowState = workflowState
                                       /\ out.table = table)]
        /\ UNCHANGED <<hookVars, otherVars>>
        /\ UNCHANGED <<regVars, busState, queue, published, slots, lastCall,
                       done, deletes, backend, nextId, wf, lastStart>>

InitPersistence ==
    /\ registry = <<>>
    /\ handlerResolvers = <<>>
    /\ unhandledMessages = <<>>
    /\ busState = "Uninitialized"
    /\ queue = <<>>
    /\ published = 0
    /\ slots = [w \in 1..MaxInFlight |-> IdleSlot]
    /\ lastCall = NoCall
    /\ done = NoDelivery
    /\ deletes = [i \in MsgIds |-> 0]
    /\ backend \in Backends
    /\ workflowState = <<>>
    /\ table = <<>>
    /\ nextId = 0
    /\ wf = [w \in 1..MaxInFlight |-> IdleWf]
    /\ lastStart = NoStart
    /\ lastSave = NoSave
    /\ InitHooks
    /\ InitOther

NextPersistence == \E state \in SaveInputs : SaveCall(state)

SpecPersistence == InitPersistence /\ [][NextPersistence]_vars

(***************************************************************************)
(* The workflow engine: one workflow W, started by StartMsg, advanced by   *)
(* WhenMsg with lookup = message.key and mapsTo = 'key'.                   *)
(***************************************************************************)
WfMessages == [name : {"StartMsg", "WhenMsg"}, key : Keys]

lookup(message) == message.key

NoDelta == [none |-> TRUE]

\* what an onStartedBy initializer may return: nothing, the key of the message,
\* or the key together with $status = Discard
InitKinds == {"none", "key", "discard"}
InitResult(kind, message) ==
    CASE kind = "key" -> [key |-> message.key]
      [] kind = "discard" -> [key |-> message.key, status |-> "discard"]
      [] OTHER -> NoDelta

\* what an onWhen step may return for the snapshot it is given: nothing, a
\* counter increment, $status = Complete, or $status = Discard
StepKinds == {"none", "inc", "complete", "discard"}

\* a workflow id that uuid.v4() did not hand out
ForeignId == 0

\* a step may also push to the nested array of the state it is given, and
\* then return nothing or a counter increment
MutatingStepKinds == StepKinds \cup {"push", "pushInc"}
Mutates(kind) == kind \in {"push", "pushInc"}

\* state.tags.push(...): the frozen copy shares its nested values with the
\* state it was copied from
Pushed(state, kind) ==
    IF Mutates(kind) THEN [state EXCEPT !.tags = @ + 1] ELSE state

\* a step may also return a delta with the fields $workflowId or $name
IdentityStepKinds == StepKinds \cup {"reid", "rename"}

StepResult(kind, state) ==
    CASE kind \in {"inc", "pushInc"} -> [count |-> state.count + 1]
      [] kind = "complete" -> [status |-> "complete"]
      [] kind = "discard" -> [status |-> "discard"]
      [] kind = "reid" -> [workflowId |-> ForeignId]
      [] kind = "rename" -> [name |-> "V"]
      [] OTHER -> NoDelta

HandlerReturned(w, handler, threw) ==
    [slots EXCEPT ![w].todo = Tail(@),
                  ![w].calls[handler] = @ + 1,
                  ![w].failed = @ \/ threw]

\* the handler rejected with the given error, or returned ("none")
HandlerRejected(w, handler, error) ==
    [HandlerReturned(w, handler, error # "none") EXCEPT
        ![w].error = IF @ = "none" THEN error ELSE @]

Handling(w, handler) ==
    /\ slots[w].pc = "handling"
    /\ slots[w].todo # <<>>
    /\ Head(slots[w].todo) = handler

\* the handler registerFnStartedBy registers
StartedByHandle(w) ==
    /\ Handling(w, "startedBy")
    /\ nextId < MaxInstances
    /\ nextId' = nextId + 1
    /\ \E kind \in InitKinds :
        LET message == RawOf(queue, slots[w].msg).payload
            state == createWorkflowState(nextId + 1)
            result == InitResult(kind, message)
            out == IF kind # "none"
                   THEN saveWorkflowState(Assign(state, result))
                   ELSE [workflowState |-> workflowState, table |-> table,
                         result |-> "none"]
        IN  /\ workflowState' = out.workflowState
            /\ table' = out.table
            /\ lastStart' = [id |-> nextId + 1, ret |-> kind, result |-> out.result]
            /\ slots' = HandlerRejected(w, "startedBy",
                                        IF out.result \in {"ok", "none"}
                                        THEN "none" ELSE out.result)
    /\ UNCHANGED <<hookVars, otherVars>>
    /\ UNCHANGED <<regVars, busState, queue, published, lastCall, done, deletes,
                   backend, wf, lastSave>>

\* the handler registerFnHandles registers: getWorkflowState
WhenLoad(w) ==
    /\ Handling(w, "when")
    /\ wf[w].pc = "none"
    /\ LET message == RawOf(queue, slots[w].msg).payload
           loaded == getWorkflowState(lookup(message))
       IN  IF loaded = <<>>
           THEN /\ slots' = HandlerReturned(w, "when", FALSE)
                /\ UNCHANGED wf
           ELSE /\ wf' = [wf EXCEPT ![w] = [pc |-> "step", loaded |-> loaded,
                                            tasks |-> <<>>]]
                /\ UNCHANGED slots
    /\ UNCHANGED <<hookVars, otherVars>>
    /\ UNCHANGED <<regVars, busState, queue, published, lastCall, done, deletes,
                   backend, workflowState, table, nextId, lastStart, lastSave>>

\* the state dispatchMessageToWorkflow is given: the live row of the in-memory
\* persistence, the deserialized copy of the Postgres one
GivenState(l) == IF backend = "memory" THEN workflowState[l.ref] ELSE l.data

\* a step may also throw
ThrowingStepKinds == StepKinds \cup {"throw"}

\* dispatchMessageToWorkflow up to `await handler(...)`, for every loaded state,
\* with steps of the given kinds
WhenInvokeStepsOf(w, stepKinds) ==
    /\ wf[w].pc = "step"
    /\ \E kinds \in [1..Len(wf[w].loaded) -> stepKinds] :
          /\ wf' = [wf EXCEPT ![w].pc = "tasks",
                              ![w].tasks =
                                  [i \in 1..Len(wf[w].loaded) |->
                                      [ref |-> wf[w].loaded[i].ref,
                                       data |-> Pushed(wf[w].loaded[i].data,
                                                       kinds[i]),
                                       snap |-> Pushed(GivenState(wf[w].loaded[i]),
                                                       kinds[i]),
                                       kind |-> kinds[i],
                                       pc |-> "pending",
                                       error |-> "none"]]]
          /\ workflowState' =
                [r \in 1..Len(workflowState) |->
                    IF \E i \in 1..Len(wf[w].loaded) :
                          wf[w].loaded[i].ref = r /\ Mutates(kinds[i])
                    THEN Pushed(workflowState[r], "push")
                    ELSE workflowState[r]]
    /\ UNCHANGED <<hookVars, otherVars>>
    /\ UNCHANGED <<regVars, busState, queue, published, slots, lastCall, done,
                   deletes, backend, table, nextId, lastStart, lastSave>>

WhenInvokeSteps(w) == WhenInvokeStepsOf(w, StepKinds)

\* a Promise.all that waits for every dispatch and never rejects
NoneFailed(tasks) == FALSE

AllSettled(tasks) == \A i \in 1..Len(tasks) : tasks[i].pc # "pending"
SomeFailed(tasks) == \E i \in 1..Len(tasks) : tasks[i].pc = "failed"

\* dispatchMessageToWorkflow after `await handler(...)`: discard, merge and
\* persist, or nothing. The store it leaves and how it ends.
PersistOutcome(t) ==
    LET workflowStateOutput == StepResult(t.kind, t.snap)
        updatedWorkflowState == Assign(GivenState(t), workflowStateOutput)
    IN  IF t.kind = "throw"
        THEN [workflowState |-> workflowState, table |-> table,
              result |-> "HandlerError"]
        ELSE IF t.kind \in {"none", "discard", "push"}
        THEN [workflowState |-> workflowState, table |-> table, result |-> "ok"]
        ELSE saveWorkflowState(updatedWorkflowState)

TaskContinue(w, i) ==
    /\ wf[w].pc \in {"tasks", "orphans"}
    /\ i \in 1..Len(wf[w].tasks)
    /\ wf[w].tasks[i].pc = "pending"
    /\ LET out == PersistOutcome(wf[w].tasks[i])
           tasks1 == [wf[w].tasks EXCEPT
                         ![i].pc = IF out.result = "ok" THEN "ok" ELSE "failed",
                         ![i].error = IF out.result = "ok" THEN "none"
                                      ELSE out.result]
       IN  /\ workflowState' = out.workflowState
           /\ table' = out.table
           /\ wf' = [wf EXCEPT ![w] =
                        IF wf[w].pc = "orphans" /\ AllSettled(tasks1)
                        THEN IdleWf
                        ELSE [wf[w] EXCEPT !.tasks = tasks1]]
    /\ UNCHANGED <<hookVars, otherVars>>
    /\ UNCHANGED <<regVars, busState, queue, published, slots, lastCall, done,
                   deletes, backend, nextId, lastStart, lastSave>>

\* `await Promise.all(workflowHandlers)`: resolves when every dispatch has
\* resolved, rejects as soon as one has rejected (the others run on)
WhenSettled(w) ==
    /\ Handling(w, "when")
    /\ wf[w].pc = "tasks"
    /\ AllSettled(wf[w].tasks) \/ SomeFailed(wf[w].tasks)
    /\ IF SomeFailed(wf[w].tasks)
       THEN \E i \in 1..Len(wf[w].tasks) :
               /\ wf[w].tasks[i].pc = "failed"
               /\ slots' = HandlerRejected(w, "when", wf[w].tasks[i].error)
       ELSE slots' = HandlerReturned(w, "when", FALSE)
    /\ wf' = [wf EXCEPT ![w] = IF AllSettled(wf[w].tasks) THEN IdleWf
                               ELSE [wf[w] EXCEPT !.pc = "orphans"]]
    /\ UNCHANGED <<hookVars, otherVars>>
    /\ UNCHANGED <<regVars, busState, queue, published, lastCall, done, deletes,
                   backend, workflowState, table, nextId, lastStart, lastSave>>

PublishWorkflowMessage(m) ==
    /\ published < MaxWfPublish
    /\ Emit("publish", [event |-> "publish", message |-> m,
                        attributes |-> NoAttributes, depth |-> Len(queue)])
    /\ published' = published + 1
    /\ queue' = Append(queue, [id |-> published + 1, payload |-> m,
                               attributes |-> NoAttributes,
                               seenCount |-> 0, inFlight |-> FALSE])
    /\ UNCHANGED <<regVars, busState, slots, lastCall, done, deletes>>
    /\ UNCHANGED <<wfVars, otherVars>>

\* the handler registry after WorkflowRegistry.initialize wired the workflow
WiredRegistry ==
    register(register(<<>>, <<>>, "StartMsg", "startedBy", NoResolver).registry,
             <<>>, "WhenMsg", "when", NoResolver).registry

\* the workflow registry after initialize() wired workflow W
InitializedWorkflowRegistry ==
    /\ workflowRegistry = <<>>
    /\ isInitialized = TRUE
    /\ isInitializing = FALSE
    /\ initCalls = <<>>
    /\ wired = [n \in Workflows |-> IF n = "W" THEN 1 ELSE 0]
    /\ lastInit = [op |-> "initialize", result |-> "ok"]

\* a started bus with the workflow wired and an initialized, empty persistence
InitWf ==
    /\ registry = WiredRegistry
    /\ handlerResolvers = <<>>
    /\ unhandledMessages = <<>>
    /\ busState = "Started"
    /\ queue = <<>>
    /\ published = 0
    /\ slots = [w \in 1..MaxWfInFlight |-> IdleSlot]
    /\ lastCall = NoCall
    /\ done = NoDelivery
    /\ deletes = [i \in 1..MaxWfPublish |-> 0]
    /\ backend \in Backends
    /\ workflowState = <<>>
    /\ table = <<>>
    /\ nextId = 0
    /\ wf = [w \in 1..MaxWfInFlight |-> IdleWf]
    /\ lastStart = NoStart
    /\ lastSave = NoSave
    /\ InitHooks
    /\ callCount = 0
    /\ invoked = [i \in 1..MaxPublish |-> 0]
    /\ variant = "resolvers"
    /\ regCall = NoRegCall
    /\ registered = NothingRegistered
    /\ InitializedWorkflowRegistry

NextWf ==
    \/ \E m \in WfMessages : PublishWorkflowMessage(m)
    \/ \E w \in Workers : Acquire(w)
    \/ \E w \in Workers : StartedByHandle(w)
    \/ \E w \in Workers : WhenLoad(w)
    \/ \E w \in Workers : WhenInvokeSteps(w)
    \/ \E w \in Workers : \E i \in 1..MaxInstances : TaskContinue(w, i)
    \/ \E w \in Workers : WhenSettled(w)
    \/ \E w \in Workers : Settle(w)

SpecWf == InitWf /\ [][NextWf]_vars

\* the workflow with steps that may return $workflowId or $name in the delta
NextWfIdentity ==
    \/ \E m \in WfMessages : PublishWorkflowMessage(m)
    \/ \E w \in Workers : Acquire(w)
    \/ \E w \in Workers : StartedByHandle(w)
    \/ \E w \in Workers : WhenLoad(w)
    \/ \E w \in Workers : WhenInvokeStepsOf(w, IdentityStepKinds)
    \/ \E w \in Workers : \E i \in 1..MaxInstances : TaskContinue(w, i)
    \/ \E w \in Workers : WhenSettled(w)
    \/ \E w \in Workers : Settle(w)

SpecWfIdentity == InitWf /\ [][NextWfIdentity]_vars

\* the workflow with steps that may push to the nested array of their state
NextWfMutating ==
    \/ \E m \in WfMessages : PublishWorkflowMessage(m)
    \/ \E w \in Workers : Acquire(w)
    \/ \E w \in Workers : StartedByHandle(w)
    \/ \E w \in Workers : WhenLoad(w)
    \/ \E w \in Workers : WhenInvokeStepsOf(w, MutatingStepKinds)
    \/ \E w \in Workers : \E i \in 1..MaxInstances : TaskContinue(w, i)
    \/ \E w \in Workers : WhenSettled(w)
    \/ \E w \in Workers : Settle(w)

SpecWfMutating == InitWf /\ [][NextWfMutating]_vars

\* the workflow with steps that may throw
NextWfThrowing ==
    \/ \E m \in WfMessages : PublishWorkflowMessage(m)
    \/ \E w \in Workers : Acquire(w)
    \/ \E w \in Workers : StartedByHandle(w)
    \/ \E w \in Workers : WhenLoad(w)
    \/ \E w \in Workers : WhenInvokeStepsOf(w, ThrowingStepKinds)
    \/ \E w \in Workers : \E i \in 1..MaxInstances : TaskContinue(w, i)
    \/ \E w \in Workers : WhenSettled(w)
    \/ \E w \in Workers : Settle(w)

SpecWfThrowing == InitWf /\ [][NextWfThrowing]_vars

\* the workflow under a bus whose error hook may have a listener
NextWfListening ==
    \/ \E cb \in Callbacks : On("error", cb)
    \/ NextWf

SpecWfListening == InitWf /\ [][NextWfListening]_vars

(***************************************************************************)
(* The bus with plain handlers.                                            *)
(***************************************************************************)
Init ==
    /\ registry = <<>>
    /\ handlerResolvers = <<>>
    /\ unhandledMessages = <<>>
    /\ busState = "Uninitialized"
    /\ queue = <<>>
    /\ published = 0
    /\ slots = [w \in 1..MaxInFlight |-> IdleSlot]
    /\ lastCall = NoCall
    /\ done = NoDelivery
    /\ deletes = [i \in MsgIds |-> 0]
    /\ backend = "memory"
    /\ workflowState = <<>>
    /\ table = <<>>
    /\ nextId = 0
    /\ wf = [w \in 1..MaxInFlight |-> IdleWf]
    /\ lastStart = NoStart
    /\ lastSave = NoSave
    /\ InitHooks
    /\ InitOther

Next ==
    \/ \E t \in MessageTypes, h \in PlainHandlers, r \in Resolvers \cup {NoResolver} :
          WithHandler(t, h, r)
    \/ Initialize
    \/ Start
    \/ StartCompleted
    \/ Stop
    \/ StopCompleted
    \/ \E m \in BusMessages : Publish(m)
    \/ \E w \in Workers : Acquire(w)
    \/ \E w \in Workers : InvokeHandler(w)
    \/ \E w \in Workers : Settle(w)

Spec == Init /\ [][Next]_vars

(***************************************************************************)
(* WorkflowRegistry.register and WorkflowRegistry.initialize.              *)
(***************************************************************************)
StartedByOf(n) == IF n = "W" THEN "StartMsg" ELSE "OtherStartMsg"
WhenOf(n) == IF n = "W" THEN "WhenMsg" ELSE "OtherWhenMsg"

\* registerFnStartedBy and registerFnHandles: one handler per message type
WireInto(reg, n) ==
    register(register(reg, <<>>, StartedByOf(n), "startedBy", NoResolver).registry,
             <<>>, WhenOf(n), "when", NoResolver).registry

\* persistence.initialize is optional: PostgresPersistence has it
HasInitialize(b) == b = "postgres"

RemoveAt(seq, c) == [i \in 1..(Len(seq) - 1) |-> IF i < c THEN seq[i] ELSE seq[i + 1]]

RegisterWorkflow(n) ==
    /\ IF isInitialized \/ Contains(workflowRegistry, n)
       THEN /\ lastInit' = [op |-> "register", result |-> "threw"]
            /\ UNCHANGED workflowRegistry
       ELSE /\ workflowRegistry' = Append(workflowRegistry, n)
            /\ lastInit' = [op |-> "register", result |-> "ok"]
    /\ UNCHANGED <<isInitialized, isInitializing, initCalls, wired>>
    /\ UNCHANGED <<regVars, busVars, wfVars, hookVars, retryVars, probeVars>>

\* initialize(), up to its first await
InitializeCall ==
    /\ IF Len(workflowRegistry) = 0
       THEN /\ lastInit' = [op |-> "initialize", result |-> "skipped"]
            /\ UNCHANGED <<registry, isInitializing, initCalls, wired>>
       ELSE IF isInitialized \/ isInitializing
       THEN /\ lastInit' = [op |-> "initialize", result |-> "threw"]
            /\ UNCHANGED <<registry, isInitializing, initCalls, wired>>
       ELSE /\ isInitializing' = TRUE
            /\ registry' = WireInto(registry, workflowRegistry[1])
            /\ wired' = [wired EXCEPT ![workflowRegistry[1]] = @ + 1]
            /\ initCalls' = Append(initCalls, [pc |-> "initializeWorkflow", i |-> 1])
            /\ lastInit' = [op |-> "initialize", result |-> "started"]
    /\ UNCHANGED <<workflowRegistry, isInitialized>>
    /\ UNCHANGED <<handlerResolvers, unhandledMessages>>
    /\ UNCHANGED <<busVars, wfVars, hookVars, retryVars, probeVars>>

\* initialize(): persistence.initializeWorkflow returned; the loop goes on
\* with the next workflow of the list or ends
InitializeContinue(c) ==
    /\ c \in 1..Len(initCalls)
    /\ initCalls[c].pc = "initializeWorkflow"
    /\ LET i == initCalls[c].i + 1
       IN  IF i <= Len(workflowRegistry)
           THEN /\ registry' = WireInto(registry, workflowRegistry[i])
                /\ wired' = [wired EXCEPT ![workflowRegistry[i]] = @ + 1]
                /\ initCalls' = [initCalls EXCEPT ![c].i = i]
                /\ UNCHANGED <<workflowRegistry, isInitialized, isInitializing,
                               lastInit>>
           ELSE /\ workflowRegistry' = <<>>
                /\ UNCHANGED <<registry, wired>>
                /\ IF HasInitialize(backend)
                   THEN /\ initCalls' = [initCalls EXCEPT ![c].pc = "initialize"]
                        /\ UNCHANGED <<isInitialized, isInitializing, lastInit>>
                   ELSE /\ isInitialized' = TRUE
                        /\ isInitializing' = FALSE
                        /\ initCalls' = RemoveAt(initCalls, c)
                        /\ lastInit' = [op |-> "initialize", result |-> "ok"]
    /\ UNCHANGED <<handlerResolvers, unhandledMessages>>
    /\ UNCHANGED <<busVars, wfVars, hookVars, retryVars, probeVars>>

\* initialize(): persistence.initialize returned
InitializeFinish(c) ==
    /\ c \in 1..Len(initCalls)
    /\ initCalls[c].pc = "initialize"
    /\ isInitialized' = TRUE
    /\ isInitializing' = FALSE
    /\ initCalls' = RemoveAt(initCalls, c)
    /\ lastInit' = [op |-> "initialize", result |-> "ok"]
    /\ UNCHANGED <<workflowRegistry, wired>>
    /\ UNCHANGED <<regVars, busVars, wfVars, hookVars, retryVars, probeVars>>

InitWfRegistry ==
    /\ registry = <<>>
    /\ handlerResolvers = <<>>
    /\ unhandledMessages = <<>>
    /\ busState = "Uninitialized"
    /\ queue = <<>>
    /\ published = 0
    /\ slots = [w \in 1..MaxInFlight |-> IdleSlot]
    /\ lastCall = NoCall
    /\ done = NoDelivery
    /\ deletes = [i \in MsgIds |-> 0]
    /\ backend \in Backends
    /\ workflowState = <<>>
    /\ table = <<>>
    /\ nextId = 0
    /\ wf = [w \in 1..MaxInFlight |-> IdleWf]
    /\ lastStart = NoStart
    /\ lastSave = NoSave
    /\ InitHooks
    /\ InitOther

NextWfRegistry ==
    \/ \E n \in Workflows : RegisterWorkflow(n)
    \/ InitializeCall
    \/ \E c \in 1..Len(initCalls) : InitializeContinue(c)
    \/ \E c \in 1..Len(initCalls) : InitializeFinish(c)

SpecWfRegistry == InitWfRegistry /\ [][NextWfRegistry]_vars

\* the awaited persistence call can reject: the Postgres one runs queries,
\* the in-memory one only assigns
PersistenceCanReject(b) == b = "postgres"

\* initialize(): persistence.initializeWorkflow or persistence.initialize
\* rejected, and initialize() rejects with that error at once
InitializeFail(c) ==
    /\ c \in 1..Len(initCalls)
    /\ PersistenceCanReject(backend)
    /\ initCalls' = RemoveAt(initCalls, c)
    /\ lastInit' = [op |-> "initialize", result |-> "failed"]
    /\ UNCHANGED <<workflowRegistry, isInitialized, isInitializing, wired>>
    /\ UNCHANGED <<regVars, busVars, wfVars, hookVars, retryVars, probeVars>>

NextWfRegistryFailing ==
    \/ NextWfRegistry
    \/ \E c \in 1..Len(initCalls) : InitializeFail(c)

SpecWfRegistryFailing == InitWfRegistry /\ [][NextWfRegistryFailing]_vars

(***************************************************************************)
(* The bus as the bus tests configure it: one handler for TestEvent.       *)
(***************************************************************************)
ConfiguredRegistry ==
    register(<<>>, <<>>, "TestEvent", "h1", NoResolver).registry

InitBus ==
    /\ registry = ConfiguredRegistry
    /\ handlerResolvers = <<>>
    /\ unhandledMessages = <<>>
    /\ busState = "Uninitialized"
    /\ queue = <<>>
    /\ published = 0
    /\ slots = [w \in 1..MaxInFlight |-> IdleSlot]
    /\ lastCall = NoCall
    /\ done = NoDelivery
    /\ deletes = [i \in MsgIds |-> 0]
    /\ backend = "memory"
    /\ workflowState = <<>>
    /\ table = <<>>
    /\ nextId = 0
    /\ wf = [w \in 1..MaxInFlight |-> IdleWf]
    /\ lastStart = NoStart
    /\ lastSave = NoSave
    /\ InitHooks
    /\ InitOther

NextBus ==
    \/ Initialize
    \/ Start
    \/ StartCompleted
    \/ Stop
    \/ StopCompleted
    \/ \E m \in BusMessages : Publish(m)
    \/ \E w \in Workers : Acquire(w)
    \/ \E w \in Workers : InvokeHandler(w)
    \/ \E w \in Workers : Settle(w)

SpecBus == InitBus /\ [][NextBus]_vars

\* every handler returns, the dispatch loop settles what it handled, and a
\* stop() that has nothing left to wait for completes
SpecBusFair ==
    /\ SpecBus
    /\ \A w \in 1..MaxInFlight : WF_vars(InvokeHandler(w)) /\ WF_vars(Settle(w))
    /\ WF_vars(StopCompleted)

(***************************************************************************)
(* The started bus of the hook tests and of the retry test.                *)
(***************************************************************************)
Events == [name : {"TestEvent"}, key : {NoKey}]
Commands == [name : {"TestCommand"}, key : {NoKey}]
Attributes == {"a", "b"}          \* correlation ids

InitStarted ==
    /\ registry = ConfiguredRegistry
    /\ handlerResolvers = <<>>
    /\ unhandledMessages = <<>>
    /\ busState = "Started"
    /\ queue = <<>>
    /\ published = 0
    /\ slots = [w \in 1..MaxInFlight |-> IdleSlot]
    /\ lastCall = NoCall
    /\ done = NoDelivery
    /\ deletes = [i \in MsgIds |-> 0]
    /\ backend = "memory"
    /\ workflowState = <<>>
    /\ table = <<>>
    /\ nextId = 0
    /\ wf = [w \in 1..MaxInFlight |-> IdleWf]
    /\ lastStart = NoStart
    /\ lastSave = NoSave
    /\ InitHooks
    /\ InitOther

\* the send and publish hooks: listeners come and go while messages are sent
\* and published (what the dispatch loop does with the messages is left to the
\* other specifications)
NextHooks ==
    \/ \E e \in {"send", "publish"}, cb \in Callbacks : On(e, cb)
    \/ \E e \in {"send", "publish"}, cb \in Callbacks : Off(e, cb)
    \/ \E m \in Events, a \in Attributes : PublishWith(m, a)
    \/ \E m \in Commands, a \in Attributes : Send(m, a)

SpecHooks == InitStarted /\ [][NextHooks]_vars

\* the error hook
NextErrorHook ==
    \/ \E cb \in Callbacks : On("error", cb)
    \/ \E cb \in Callbacks : Off("error", cb)
    \/ \E m \in Events, a \in Attributes : PublishWith(m, a)
    \/ \E w \in Workers : Acquire(w)
    \/ \E w \in Workers : InvokeHandler(w)
    \/ \E w \in Workers : Settle(w)

SpecErrorHook == InitStarted /\ [][NextErrorHook]_vars

NextRetry ==
    \/ \E m \in Events, a \in Attributes : PublishWith(m, a)
    \/ \E cb \in Callbacks : On("error", cb)
    \/ \E cb \in Callbacks : Off("error", cb)
    \/ \E w \in Workers : Acquire(w)
    \/ \E w \in Workers : InvokeFlaky(w)
    \/ \E w \in Workers : Settle(w)

\* a started bus whose dispatch loop keeps running
SpecRetry ==
    /\ InitStarted
    /\ [][NextRetry]_vars
    /\ \A w \in 1..MaxInFlight :
          WF_vars(Acquire(w)) /\ WF_vars(InvokeFlaky(w)) /\ WF_vars(Settle(w))

(***************************************************************************)
(* A handler registry called directly, in either of its two variants.      *)
(***************************************************************************)
RegistryMessages == [name : RegistryTypes \cup {NoName}, key : {NoKey}]

RegisterOf(t, h, r) ==
    IF variant = "resolvers"
    THEN register(registry, handlerResolvers, t, h, r)
    ELSE registerKeyed(registry, handlerResolvers, t, h, r)

GetOf(reg, res, unhandled, m) ==
    IF variant = "resolvers"
    THEN get(reg, res, unhandled, m)
    ELSE getKeyed(reg, res, unhandled, m)

Register(t, h, r) ==
    /\ regCall.n < MaxRegistryCalls
    /\ (r # NoResolver /\ variant = "resolvers") =>
            Len(handlerResolvers) < MaxResolvers
    /\ LET out == RegisterOf(t, h, r)
       IN  /\ registry' = out.registry
           /\ handlerResolvers' = out.handlerResolvers
           /\ regCall' = [n |-> regCall.n + 1, op |-> "register",
                          messageType |-> t, handler |-> h,
                          resolveWith |-> r, threw |-> out.threw]
           /\ registered' =
                 IF out.threw THEN registered
                 ELSE [keyed |-> [registered.keyed EXCEPT ![t] = Append(@, h)],
                       resolved |->
                           IF r = NoResolver THEN registered.resolved
                           ELSE Append(registered.resolved,
                                       [handler |-> h, messageType |-> t,
                                        resolver |-> r])]
    /\ UNCHANGED <<unhandledMessages, variant>>
    /\ UNCHANGED <<busVars, wfVars, hookVars, retryVars, wfRegVars>>

Get(m) ==
    /\ regCall.n < MaxRegistryCalls
    /\ LET out == GetOf(registry, handlerResolvers, unhandledMessages, m)
       IN  /\ unhandledMessages' = out.unhandledMessages
           /\ regCall' = [n |-> regCall.n + 1, op |-> "get", message |-> m,
                          handlers |-> out.handlers]
    /\ UNCHANGED <<registry, handlerResolvers, variant, registered>>
    /\ UNCHANGED <<busVars, wfVars, hookVars, retryVars, wfRegVars>>

Reset ==
    /\ regCall.n < MaxRegistryCalls
    /\ registry' = reset(registry)
    /\ regCall' = [n |-> regCall.n + 1, op |-> "reset"]
    /\ registered' = NothingRegistered
    /\ UNCHANGED <<handlerResolvers, unhandledMessages, variant>>
    /\ UNCHANGED <<busVars, wfVars, hookVars, retryVars, wfRegVars>>

InitRegistry ==
    /\ registry = <<>>
    /\ handlerResolvers = <<>>
    /\ unhandledMessages = <<>>
    /\ busState = "Uninitialized"
    /\ queue = <<>>
    /\ published = 0
    /\ slots = [w \in 1..MaxInFlight |-> IdleSlot]
    /\ lastCall = NoCall
    /\ done = NoDelivery
    /\ deletes = [i \in MsgIds |-> 0]
    /\ backend = "memory"
    /\ workflowState = <<>>
    /\ table = <<>>
    /\ nextId = 0
    /\ wf = [w \in 1..MaxInFlight |-> IdleWf]
    /\ lastStart = NoStart
    /\ lastSave = NoSave
    /\ InitHooks
    /\ callCount = 0
    /\ invoked = [i \in 1..MaxPublish |-> 0]
    /\ variant \in Variants
    /\ regCall = NoRegCall
    /\ registered = NothingRegistered
    /\ InitWorkflowRegistry

NextRegistry ==
    \/ \E t \in RegistryTypes, h \in PlainHandlers, r \in Resolvers \cup {NoResolver} :
          Register(t, h, r)
    \/ \E m \in RegistryMessages : Get(m)
    \/ Reset

SpecRegistry == InitRegistry /\ [][NextRegistry]_vars

(***************************************************************************)
(* Claims about the bus with plain handlers (checked under Spec).          *)
(***************************************************************************)
SettledBy(w) == slots[w].pc = "handling" /\ slots'[w].pc = "idle"

ResolvedHandlers(id) ==
    get(registry, handlerResolvers, unhandledMessages, RawOf(queue, id).payload).handlers

\* C1: a delivery in which every resolved handler completed without throwing
\* deletes the message exactly once and does not return it; the message is then
\* no longer in the queue, and each resolved handler was invoked exactly once
\* for that delivery.
C1_SuccessDeletesOnceEachHandlerOnce ==
    [][\A w \in Workers :
        (SettledBy(w) /\ ~slots[w].failed) =>
            LET id == slots[w].msg
                hs == ResolvedHandlers(id)
            IN  /\ InQueue(queue, id) /\ ~InQueue(queue', id)
                /\ deletes[id] = 0 /\ deletes'[id] = 1
                /\ Len(queue') = Len(queue) - 1
                /\ \A i \in 1..Len(hs) : slots[w].calls[hs[i]] = 1]_vars

\* The part of C1 that is about the transport alone: a successful delivery
\* deletes the message exactly once, and the message is gone from the queue.
C1_SuccessDeletesOnce ==
    [][\A w \in Workers :
        (SettledBy(w) /\ ~slots[w].failed) =>
            LET id == slots[w].msg
            IN  /\ InQueue(queue, id) /\ ~InQueue(queue', id)
                /\ deletes[id] = 0 /\ deletes'[id] = 1
                /\ Len(queue') = Len(queue) - 1]_vars

\* C2: a delivery in which at least one handler threw does not delete the
\* message: the message is returned to the transport, its seen-count grows by
\* exactly one, and it is visible again (not in flight).
C2_FailureReturnsMessage ==
    [][\A w \in Workers :
        (SettledBy(w) /\ slots[w].failed) =>
            LET id == slots[w].msg
            IN  /\ InQueue(queue, id) /\ InQueue(queue', id)
                /\ deletes' = deletes
                /\ Len(queue') = Len(queue)
                /\ RawOf(queue', id).seenCount = RawOf(queue, id).seenCount + 1
                /\ RawOf(queue, id).inFlight /\ ~RawOf(queue', id).inFlight]_vars

C2_Witness ==
    /\ done.outcome = "returned"
    /\ done.failed
    /\ InQueue(queue, done.msg)
    /\ RawOf(queue, done.msg).seenCount = 1
    /\ ~RawOf(queue, done.msg).inFlight

Edges == {<<"Uninitialized", "Initialized">>, <<"Initialized", "Starting">>,
          <<"Starting", "Started">>, <<"Started", "Stopping">>,
          <<"Stopping", "Stopped">>, <<"Stopped", "Starting">>}

Called(op) == lastCall' # lastCall /\ lastCall'.op = op

\* C9: the bus state moves only along Uninitialized -> Initialized -> Starting
\* -> Started -> Stopping -> Stopped -> Starting; a start() issued while
\* Starting and a stop() issued while Stopping are rejected and change nothing.
C9_StateMachine ==
    [][/\ busState' # busState => <<busState, busState'>> \in Edges
       /\ (Called("start") /\ busState = "Starting") =>
              (lastCall'.result = "rejected" /\ busState' = busState)
       /\ (Called("stop") /\ busState = "Stopping") =>
              (lastCall'.result = "rejected" /\ busState' = busState)]_vars

C9_Witness ==
    /\ busState = "Stopping"
    /\ lastCall = [op |-> "stop", result |-> "rejected"]
    /\ published = MaxPublish

\* C10: start() fails whenever the bus is neither Initialized nor Stopped; the
\* failed call leaves the state, the queue and the in-flight deliveries as they
\* were, so that on a Started bus a following stop() is still accepted.
C10_StartRejected ==
    [][(Called("start") /\ ~(busState \in {"Initialized", "Stopped"})) =>
          /\ lastCall'.result = "rejected"
          /\ busState' = busState
          /\ slots' = slots
          /\ queue' = queue
          /\ (busState = "Started" => CanStop(busState'))]_vars

C10_Witness ==
    /\ busState = "Started"
    /\ lastCall = [op |-> "start", result |-> "rejected"]
    /\ \E w \in Workers : slots[w].pc = "handling"

(***************************************************************************)
(* Claims about the configured bus (SpecBus, SpecBusFair).                 *)
(***************************************************************************)
\* C11: stop() fails whenever the bus is not Started (Uninitialized,
\* Initialized, Starting, Stopping or Stopped), and the failed call leaves the
\* state, the queue and the in-flight deliveries as they were.
C11_StopRejected ==
    [][(Called("stop") /\ busState # "Started") =>
          /\ lastCall'.result = "rejected"
          /\ busState' = busState
          /\ slots' = slots
          /\ queue' = queue]_vars

C11_Witness ==
    /\ busState = "Starting"
    /\ lastCall = [op |-> "stop", result |-> "rejected"]
    /\ queue # <<>>

Acquired(w) == slots[w].pc = "idle" /\ slots'[w].pc = "handling"

\* C12: once stop() has been called the dispatch loop acquires no further
\* message; a delivery in flight runs to completion, its message deleted or
\* returned; the state becomes Stopped only when no handler is in flight; and,
\* every handler returning, a stop() in progress eventually completes.
C12_StopDrains ==
    /\ [][\A w \in Workers :
            /\ Acquired(w) => busState = "Started"
            /\ SettledBy(w) =>
                   LET id == slots[w].msg
                   IN  IF slots[w].failed
                       THEN InQueue(queue', id) /\ ~RawOf(queue', id).inFlight
                       ELSE ~InQueue(queue', id)]_vars
    /\ [][(busState = "Stopping" /\ busState' = "Stopped") =>
             \A w \in Workers : slots[w].pc = "idle"]_vars
    /\ \A w \in 1..MaxInFlight :
          (busState = "Stopping" /\ slots[w].pc = "handling")
              ~> (slots[w].pc = "idle")
    /\ (busState = "Stopping") ~> (busState = "Stopped")

C12_Witness ==
    /\ busState = "Stopping"
    /\ lastCall = [op |-> "stop", result |-> "ok"]
    /\ \E w \in Workers : slots[w].pc = "handling"
    /\ NextVisible(queue) # 0

(***************************************************************************)
(* Claims about retries and hooks (SpecRetry, SpecErrorHook, SpecHooks).   *)
(***************************************************************************)
\* C13: with a handler that throws on its first invocation and returns on the
\* next, the delivery that fails is that first invocation; the message it was
\* for is redelivered and deleted after exactly two invocations, no message is
\* handled more than twice, and a queue that holds messages eventually is empty.
C13_RetriedOnceThenDeleted ==
    /\ [][\A w \in Workers :
            SettledBy(w) =>
                LET id == slots[w].msg
                IN  IF slots[w].failed
                    THEN invoked[id] = 1
                    ELSE invoked[id] = RawOf(queue, id).seenCount + 1]_vars
    /\ [](\A id \in 1..MaxPublish : invoked[id] <= 2)
    /\ \A id \in 1..MaxPublish :
          (InQueue(queue, id) /\ RawOf(queue, id).seenCount = 1)
              ~> (~InQueue(queue, id) /\ invoked[id] = 2 /\ deletes[id] = 1)
    /\ (queue # <<>>) ~> (queue = <<>>)

C13_Witness ==
    /\ published = 1
    /\ queue = <<>>
    /\ invoked[1] = 2
    /\ callCount = 2
    /\ deletes[1] = 1

ErrorListeners == busHooks["error"]

\* what the error listeners were given for delivery w, the transport message
\* showing the seen-count seen
ErrorGivenFor(w, seen) ==
    LET raw == RawOf(queue, slots[w].msg)
    IN  [event |-> "error", message |-> raw.payload, error |-> "Error",
         attributes |-> raw.attributes, id |-> raw.id,
         raw |-> [seenCount |-> seen, inFlight |-> TRUE]]

\* every listener of the error hook is invoked once by a delivery in which a
\* handler threw, after the handlers have settled, and by nothing else
ErrorHookCounts ==
    /\ \A w \in Workers :
          SettledBy(w) =>
              /\ slots[w].todo = <<>>
              /\ \A cb \in Callbacks :
                    hookCalls'["error"][cb] = hookCalls["error"][cb] +
                        (IF slots[w].failed /\ Contains(ErrorListeners, cb)
                         THEN 1 ELSE 0)
              /\ ~slots[w].failed => lastHook' = lastHook
    /\ hookCalls'["error"] # hookCalls["error"] =>
          \E w \in Workers : SettledBy(w) /\ slots[w].failed

HookOf(m) == IF m \in Commands THEN "send" ELSE "publish"

RegCalled(op) == regCall'.n = regCall.n + 1 /\ regCall'.op = op

NoDuplicates(seq) ==
    \A i, j \in 1..Len(seq) : i # j => seq[i] # seq[j]

HandlersOf(reg, t) == IF t \in DOMAIN reg THEN reg[t] ELSE <<>>

\* C16: register throws HandlerAlreadyRegistered exactly when the handler is
\* already in the list of the message name, and then leaves that list as it
\* was; otherwise it appends the handler; so no list ever holds a handler twice.
C16_NoHandlerTwice ==
    [][/\ RegCalled("register") =>
             LET t == regCall'.messageType
                 h == regCall'.handler
                 before == HandlersOf(registry, t)
             IN  /\ regCall'.threw <=> Contains(before, h)
                 /\ registry'[t] = IF regCall'.threw THEN before
                                   ELSE Append(before, h)
       /\ \A t \in DOMAIN registry' : NoDuplicates(registry'[t])]_vars

C16_Witness ==
    /\ regCall.op = "register"
    /\ regCall.threw
    /\ regCall.messageType = "TestEvent"
    /\ registry["TestEvent"] = <<"h2", "h1">>
    /\ regCall.handler = "h2"

\* C17: a handler registered with success for a message type is among the
\* handlers get returns for a message of that type, whatever was registered
\* or looked up since.
C17_RegisteredHandlerIsReturned ==
    \A t \in RegistryTypes :
        \A i \in 1..Len(registered.keyed[t]) :
            Contains(GetOf(registry, handlerResolvers, unhandledMessages,
                           [name |-> t, key |-> NoKey]).handlers,
                     registered.keyed[t][i])

C17_Witness ==
    /\ registered.keyed["TestEvent"] = <<"h1">>
    /\ registered.keyed["TestCommand"] = <<"h2">>
    /\ regCall.op = "get"
    /\ regCall.message.name = "TestEvent"
    /\ Contains(regCall.handlers, "h1")
    /\ Contains(unhandledMessages, "TestCommand")

\* the handlers registered with success for the name of the message, then
\* those registered with success with a predicate that accepts the message
ExpectedHandlers(m) ==
    (IF m.name \in RegistryTypes THEN registered.keyed[m.name] ELSE <<>>)
        \o resolveCustomHandlers(registered.resolved, m)

\* C18: get returns exactly the handlers keyed by the name of the message, in
\* registration order, followed by the handlers whose predicate accepts the
\* message, in registration order; this also for a message without a name.
C18_GetKeyedThenResolved ==
    [][RegCalled("get") =>
          regCall'.handlers = ExpectedHandlers(regCall'.message)]_vars

\* C19: after reset() there is no message name, no resolver and no recorded
\* unhandled message, and get returns no handler for any message.
C19_ResetClearsAll ==
    [][RegCalled("reset") =>
          /\ getMessageNames(registry') = {}
          /\ handlerResolvers' = <<>>
          /\ unhandledMessages' = <<>>
          /\ \A m \in RegistryMessages :
                GetOf(registry', handlerResolvers', unhandledMessages',
                      m).handlers = <<>>]_vars

\* C27: the list of handlers a get call returns holds no handler twice, also
\* when a handler registered with a resolveWith predicate is looked up with a
\* message that carries the $name it was registered for.
C27_GetReturnsNoHandlerTwice ==
    regCall.op = "get" => NoDuplicates(regCall.handlers)

\* C28: a register call that throws HandlerAlreadyRegistered leaves the keyed
\* lists, the message names and the resolvers as they were, and with them
\* what get returns for every message.
C28_FailedRegisterChangesNothing ==
    [][(RegCalled("register") /\ regCall'.threw) =>
           /\ registry' = registry
           /\ getMessageNames(registry') = getMessageNames(registry)
           /\ handlerResolvers' = handlerResolvers
           /\ \A m \in RegistryMessages :
                 GetOf(registry', handlerResolvers', unhandledMessages', m).handlers
                     = GetOf(registry, handlerResolvers, unhandledMessages, m).handlers]_vars

(***************************************************************************)
(* Claims about the workflow registry (SpecWfRegistry).                    *)
(***************************************************************************)
\* an initialize() call reached its first await or returned without one
InitializeCalled ==
    /\ lastInit' # lastInit
    /\ lastInit'.op = "initialize"
    /\ lastInit'.result # "ok"

\* C20: an initialize() called after an initialize() has completed, or while
\* one is in progress, throws; and the handlers of a workflow are registered
\* with the handler registry at most once.
C20_InitializeOnce ==
    [][/\ (InitializeCalled /\ (isInitialized \/ initCalls # <<>>)) =>
              lastInit'.result = "threw"
       /\ \A n \in Workflows : wired'[n] <= 1]_vars

\* a register() call returned
RegisterCalled ==
    /\ lastInit'.op = "register"
    /\ lastInit' # lastInit \/ workflowRegistry' # workflowRegistry

\* an initialize() call has returned without an error
InitializeCompleted ==
    \/ isInitialized
    \/ lastInit.op = "initialize" /\ lastInit.result \in {"ok", "skipped"}

\* C21: a register() called after an initialize() has completed throws and
\* leaves the buffer of registered workflows as it was, also when no workflow
\* was registered before that initialize().
C21_NoRegisterAfterInitialize ==
    [][(InitializeCompleted /\ RegisterCalled) =>
           /\ lastInit'.result = "threw"
           /\ workflowRegistry' = workflowRegistry]_vars

\* register() accepted workflow n
Accepted(n) == workflowRegistry' = Append(workflowRegistry, n)

\* C22: register() accepts a workflow only when no accepted workflow, still
\* buffered or already wired into the handler registry, has its name.
C22_WorkflowNamesUnique ==
    [][\A n \in Workflows :
          Accepted(n) => ~Contains(workflowRegistry, n) /\ wired[n] = 0]_vars

\* C26: a workflow leaves the buffer only with its handlers wired, and an
\* initialized registry has no workflow left in its buffer.
C26_AcceptedWorkflowsAreWired ==
    [][/\ \A n \in Workflows :
              (Contains(workflowRegistry, n) /\ ~Contains(workflowRegistry', n))
                  => wired'[n] >= 1
       /\ isInitialized' => workflowRegistry' = <<>>]_vars

\* C30: the in-progress flag is set only while an initialize() call is in
\* progress, also after a call that failed, and no workflow is wired twice.
C30_FailedInitializeNotStuck ==
    /\ initCalls = <<>> => ~isInitializing
    /\ \A n \in Workflows : wired[n] <= 1

(***************************************************************************)
(* Claims about the persistence called directly (SpecPersistence).         *)
(***************************************************************************)
\* C4: a save of a state at version v, while the stored row of that workflow
\* id has another version (v = 0 with a row present included), raises
\* WorkflowStateNotFound and leaves the stored row as it was.
C4_StaleSaveRaises ==
    (lastSave.result # "none"
     /\ lastSave.stored # -1
     /\ lastSave.stored # lastSave.state.version)
        => (lastSave.result = "WorkflowStateNotFound" /\ lastSave.unchanged)

(***************************************************************************)
(* Claims about the workflow engine (SpecWf).                              *)
(***************************************************************************)
StoreUnchanged == workflowState' = workflowState /\ table' = table

\* the dispatch of task i of delivery w went past its `await handler(...)`
TaskContinued(w, i) ==
    /\ i \in 1..Len(wf[w].tasks)
    /\ wf[w].tasks[i].pc = "pending"
    /\ wf'[w].pc = "none" \/ wf'[w].tasks[i].pc # "pending"

ReturnsDelta(t) == t.kind \in {"inc", "complete"}

\* C3: of the deliveries that ran their step on the same stored state of an
\* instance and returned a delta, one save succeeds; a save whose step ran on
\* a state that is no longer the stored one fails with WorkflowStateNotFound
\* and writes nothing, so that no update is overwritten.
C3_StaleStepSaveFails ==
    [][\A w \in Workers : \A i \in 1..MaxInstances :
        (/\ TaskContinued(w, i)
         /\ ReturnsDelta(wf[w].tasks[i])
         /\ StoredRow(wf[w].tasks[i].snap.workflowId) # wf[w].tasks[i].snap)
            => (/\ PersistOutcome(wf[w].tasks[i]).result = "WorkflowStateNotFound"
                /\ StoreUnchanged)]_vars

\* C5: the stored $version of an instance is 1 after its first save, grows by
\* exactly one with every successful save, and never changes otherwise.
C5_VersionGrowsByOne ==
    [][\A id \in 1..MaxInstances :
        /\ (~HasRow(id) /\ RowsHave(StoredRows', id))
              => RowOf(StoredRows', id).version = 1
        /\ HasRow(id) =>
              /\ RowsHave(StoredRows', id)
              /\ RowOf(StoredRows', id).version \in
                     {StoredRow(id).version, StoredRow(id).version + 1}
        /\ \A w \in Workers : \A i \in 1..MaxInstances :
              (/\ TaskContinued(w, i)
               /\ ReturnsDelta(wf[w].tasks[i])
               /\ wf[w].tasks[i].snap.workflowId = id
               /\ PersistOutcome(wf[w].tasks[i]).result = "ok")
                  => RowOf(StoredRows', id).version = StoredRow(id).version + 1]_vars

NoDiscardStored == \A i \in 1..Len(StoredRows) : StoredRows[i].status # "discard"

\* C6: a step or an initializer that returns $status = Discard causes no save:
\* the store is unchanged, and no stored row ever has $status = Discard.
C6_DiscardNotPersisted ==
    [][/\ NoDiscardStored'
       /\ (lastStart' # lastStart /\ lastStart'.ret = "discard") => StoreUnchanged
       /\ \A w \in Workers : \A i \in 1..MaxInstances :
              (TaskContinued(w, i) /\ wf[w].tasks[i].kind = "discard")
                  => StoreUnchanged]_vars

\* the instances an onWhen message with lookup key k is meant for
MatchingRunning(k) ==
    IF IsFalsy(k) THEN {}
    ELSE {StoredRows[i].workflowId : i \in
             {j \in 1..Len(StoredRows) :
                 StoredRows[j].key = k /\ StoredRows[j].status = "running"}}

LoadedIds(l) == {l[i].data.workflowId : i \in 1..Len(l)}

\* C7: an onWhen message is stepped once for each stored Running instance whose
\* key equals the lookup key, and for no other; for a falsy key it is stepped
\* for none; an instance stored as Complete is not stepped.
C7_StepsExactlyMatchingRunning ==
    [][\A w \in Workers :
        LET k == lookup(RawOf(queue, slots[w].msg).payload)
        IN  /\ (Handling(w, "when") /\ wf[w].pc = "none" /\ wf'[w].pc = "step")
                  => /\ LoadedIds(wf'[w].loaded) = MatchingRunning(k)
                     /\ Len(wf'[w].loaded) = Cardinality(MatchingRunning(k))
            /\ (Handling(w, "when") /\ wf[w].pc = "none"
                /\ slots'[w].calls["when"] = slots[w].calls["when"] + 1)
                  => MatchingRunning(k) = {}
            /\ (wf[w].pc = "step" /\ wf'[w].pc = "tasks")
                  => /\ Len(wf'[w].tasks) = Len(wf[w].loaded)
                     /\ \A i \in 1..Len(wf[w].loaded) :
                           /\ wf'[w].tasks[i].snap.workflowId
                                  = wf[w].loaded[i].data.workflowId
                           /\ StoredRow(wf[w].loaded[i].data.workflowId).status
                                  # "complete"]_vars

\* C8: every handling of an onStartedBy message creates a state with an id no
\* other instance has, $status Running and $version 0; a returned delta is
\* merged into it and stored with $version 1; without a delta no row is made.
C8_StartedByStoresVersionOne ==
    [][lastStart' # lastStart =>
        LET id == nextId + 1
            fresh == createWorkflowState(id)
        IN  /\ lastStart'.id = id
            /\ ~HasRow(id)
            /\ \A w \in Workers : \A i \in 1..Len(wf[w].tasks) :
                  wf[w].tasks[i].snap.workflowId # id
            /\ fresh.status = "running" /\ fresh.version = 0
            /\ lastStart'.ret = "none" => StoreUnchanged
            /\ lastStart'.ret # "none" =>
                  /\ lastStart'.result = "ok"
                  /\ RowsHave(StoredRows', id)
                  /\ RowOf(StoredRows', id).version = 1
                  /\ Len(StoredRows') = Len(StoredRows) + 1]_vars

\* the onWhen handler of delivery w returned or threw
WhenReturned(w) ==
    /\ Handling(w, "when")
    /\ wf[w].pc = "tasks"
    /\ slots'[w].calls["when"] = slots[w].calls["when"] + 1

AllOk(tasks) == \A i \in 1..Len(tasks) : tasks[i].pc = "ok"

\* the onWhen handler of delivery w got the states of the message from the
\* persistence
WhenLoaded(w) ==
    /\ Handling(w, "when")
    /\ wf[w].pc = "none"
    /\ wf'[w].pc = "step" \/ slots'[w].calls["when"] = slots[w].calls["when"] + 1

C25_StaleSaveNoErrorHook ==
    [][\A w \in Workers :
        (SettledBy(w) /\ slots[w].error = "WorkflowStateNotFound") =>
            /\ done'.outcome = "returned"
            /\ InQueue(queue', slots[w].msg)
            /\ hookCalls' = hookCalls]_vars

\* C23: every stored row keeps its $workflowId and its $name, whatever the
\* deltas of the steps hold, and the save of a step adds no row.
C23_IdAndNameImmutable ==
    [][/\ \A r \in 1..Len(StoredRows) :
              /\ r <= Len(StoredRows')
              /\ StoredRows'[r].workflowId = StoredRows[r].workflowId
              /\ StoredRows'[r].name = StoredRows[r].name
       /\ (\E w \in Workers : \E i \in 1..MaxInstances : TaskContinued(w, i))
              => Len(StoredRows') = Len(StoredRows)]_vars

\* the steps of delivery w were invoked with their states
StepsInvoked(w) == wf[w].pc = "step" /\ wf'[w].pc = "tasks"

\* C24: invoking the steps changes no stored row, whatever the steps do with
\* the state they are given; the dispatch of a step that returned nothing
\* changes no stored row; and after the save of a returned delta the stored row
\* of the instance equals the state that was loaded in every field but those
\* of the delta and $version, the other rows being unchanged.
C24_StepStateIsSnapshot ==
    [][\A w \in Workers :
        /\ StepsInvoked(w) => StoreUnchanged
        /\ \A i \in 1..MaxInstances :
              TaskContinued(w, i) =>
                  LET t == wf[w].tasks[i]
                      delta == StepResult(t.kind, t.snap)
                      loadedState == wf[w].loaded[i].data
                      id == loadedState.workflowId
                  IN  /\ delta = NoDelta => StoreUnchanged
                      /\ (/\ delta # NoDelta
                          /\ t.kind # "discard"
                          /\ PersistOutcome(t).result = "ok") =>
                             /\ RowsHave(StoredRows', id)
                             /\ \A f \in DOMAIN loadedState \
                                         (DOMAIN delta \cup {"version"}) :
                                   RowOf(StoredRows', id)[f] = loadedState[f]
                             /\ \A r \in 1..Len(StoredRows) :
                                   StoredRows[r].workflowId # id
                                       => StoredRows'[r] = StoredRows[r]]_vars

====
